---- MODULE Spec2Model ----
(***************************************************************************)
(* Model of docs/app.py: a PyShiny Express live-data dashboard.            *)
(*                                                                         *)
(* A reactive calc (reactive_calc_combined) generates one reading per      *)
(* invalidation, appends it to a process-wide deque(maxlen=DEQUE_SIZE)     *)
(* and returns the tuple (deque, DataFrame, latest entry).  Five render    *)
(* bindings call the calc.  The calc re-arms its own invalidation timer.   *)
(*                                                                         *)
(* Temperatures are integers in tenths of a degree (round(.., 1)).         *)
(* Python objects that are shared by reference are modelled as shared      *)
(* state: the deque is one object (variable deque) and the tuple the calc  *)
(* returns holds a reference to it; the DataFrame is one object per        *)
(* recomputation, held by the cached tuple (cache[1].df).                  *)
(***************************************************************************)
EXTENDS Integers, Sequences, FiniteSets, TLC

\* ---------------------------------------------------------------- constants

DEQUE_SIZE == 5

UPDATE_INTERVAL_SECS == 3

\* Number of recomputations explored (the timer stops firing after that).
MaxTicks == 6

\* Number of recomputations explored by the liveness specification.
MaxLiveTicks == 3

\* Values round(random.uniform(-18, -16), 1) can take, in tenths (a sample).
AntarcticTemps == {-180, -170, -160}

\* Values round(random.uniform(-20, -15), 1) can take, in tenths (a sample).
ArcticTemps == {-170}

\* The five render bindings of the page.
Bindings ==
    {"display_temp_antarctic", "display_temp_arctic", "compare_temperatures",
     "display_df", "display_plot"}

\* The identity of the one deque object created at import time.
DequeRef == "reactive_value_wrapper.deque"

VARIABLES
    deque,      \* contents of the deque object inside reactive_value_wrapper
    cache,      \* reactive calc: <<>> when invalidated, <<tuple>> when cached
    timer,      \* TRUE while an invalidate_later timer is scheduled
    clock,      \* wall clock, seconds since start
    pending,    \* bindings that are invalidated and wait for (re)execution
    output,     \* the value each binding last rendered
    appended,   \* history: every entry ever appended to the deque, in order
    returned,   \* history: every tuple the calc body returned, with the
                \*   deque contents at the moment of return
    lastRead    \* history: what the most recent call of the calc handed out

vars == <<deque, cache, timer, clock, pending, output, appended, returned, lastRead>>

\* ------------------------------------------------------------ small helpers

RECURSIVE SumTo(_, _)
\* Sum of f(i) for i in 1..n, f given as a sequence.
SumTo(s, n) == IF n = 0 THEN 0 ELSE s[n] + SumTo(s, n - 1)

\* What a reference held in a returned tuple shows when it is read now.
Deref(ref) == IF ref = DequeRef THEN deque ELSE <<>>

\* ------------------------------------------------- reactive_calc_combined

\* datetime.now().strftime("%Y-%m-%d %H:%M:%S"): a string, second precision.
Strftime(now) == [fmt |-> "str", secs |-> now]

\* pd.to_datetime(<str>): a datetime64 value for the same instant.
ToDatetime(ts) == [fmt |-> "datetime64", secs |-> ts.secs]

\* new_dictionary_entry
NewEntry(ta, tr, now) ==
    [temp_antarctic |-> ta, temp_arctic |-> tr, timestamp |-> Strftime(now)]

\* Variant: a full buffer drops its newest element, not its oldest.
DequeAppendDropsNewest(d, x) ==
    IF Len(d) = DEQUE_SIZE THEN Append(SubSeq(d, 1, Len(d) - 1), x) ELSE Append(d, x)

\* Variant: a deque built without maxlen.
DequeAppendUnbounded(d, x) == Append(d, x)

\* deque(maxlen=DEQUE_SIZE).append(x)
DequeAppend(d, x) ==
    IF Len(d) = DEQUE_SIZE THEN Append(Tail(d), x) ELSE Append(d, x)

\* pd.DataFrame(deque_snapshot): a new table, one row per dict, columns in
\* the dicts' key order; the values are copied out of the deque.
DataFrame(d) ==
    [columns |-> IF Len(d) = 0 THEN <<>>
                 ELSE <<"temp_antarctic", "temp_arctic", "timestamp">>,
     rows |-> [i \in 1..Len(d) |->
                 [temp_antarctic |-> d[i].temp_antarctic,
                  temp_arctic |-> d[i].temp_arctic,
                  timestamp |-> d[i].timestamp]]]

\* Variant: the latest entry is taken from the head of the deque.
LatestEntryHead(entry, d) == d[1]

\* latest_dictionary_entry = new_dictionary_entry
LatestEntry(entry, d) == entry

\* Variant: the body does not call invalidate_later.
NoInvalidateLater == FALSE

\* reactive.invalidate_later(UPDATE_INTERVAL_SECS): a timer is scheduled.
InvalidateLater == TRUE

\* Variant: a plain function, not a reactive calc: every call runs the body.
AlwaysRecompute == TRUE

\* @reactive.calc(): the body runs only when no value is cached.
NeedsRecompute == cache = <<>>

\* Variant: the DataFrame is built before the new entry is appended.
CalcBodyTableFirst(d, entry) ==
    LET d2 == DequeAppend(d, entry) IN
    [deque |-> d2,
     value |-> [deque_snapshot |-> DequeRef,
                df |-> DataFrame(d),
                latest |-> LatestEntry(entry, d2)]]

\* The body of reactive_calc_combined from the append on: the new deque
\* contents and the tuple returned (deque reference, DataFrame, latest).
CalcBody(d, entry) ==
    LET d2 == DequeAppend(d, entry) IN
    [deque |-> d2,
     value |-> [deque_snapshot |-> DequeRef,
                df |-> DataFrame(d2),
                latest |-> LatestEntry(entry, d2)]]

\* One call reactive_calc_combined() with the random draws ta, tr.
CallCalc(ta, tr) ==
    IF NeedsRecompute
    THEN LET r == CalcBody(deque, NewEntry(ta, tr, clock)) IN
         [ran |-> TRUE, deque |-> r.deque, value |-> r.value,
          timer |-> InvalidateLater, entry |-> NewEntry(ta, tr, clock)]
    ELSE [ran |-> FALSE, deque |-> deque, value |-> cache[1],
          timer |-> timer, entry |-> cache[1].latest]

\* The random draws of one call: random.uniform runs only in the body.
Draws ==
    IF NeedsRecompute THEN AntarcticTemps \X ArcticTemps ELSE {<<0, 0>>}

\* ------------------------------------------------------------------- state

NoOutput == [rendered |-> FALSE]

Init ==
    /\ deque = <<>>
    /\ cache = <<>>
    /\ timer = FALSE
    /\ clock = 0
    /\ pending = Bindings
    /\ output = [b \in Bindings |-> NoOutput]
    /\ appended = <<>>
    /\ returned = <<>>
    /\ lastRead = [called |-> FALSE, ran |-> FALSE, deque_snapshot |-> <<>>,
                   df |-> DataFrame(<<>>), latest |-> NewEntry(0, 0, 0)]

\* The part of a binding's step that is the call of the calc: c is the
\* result of CallCalc, df2 the DataFrame object after the binding's body.
Call(b, c, df2, out) ==
    /\ deque' = c.deque
    /\ cache' = <<[c.value EXCEPT !.df = df2]>>
    /\ timer' = c.timer
    /\ pending' = pending \ {b}
    /\ output' = [output EXCEPT ![b] = out]
    /\ appended' = IF c.ran THEN Append(appended, c.entry) ELSE appended
    /\ returned' = IF c.ran
                   THEN Append(returned, [deque_snapshot |-> c.value.deque_snapshot,
                                          atReturn |-> c.deque])
                   ELSE returned
    /\ lastRead' = [called |-> TRUE, ran |-> c.ran, deque_snapshot |-> c.deque,
                    df |-> c.value.df, latest |-> c.value.latest]
    /\ UNCHANGED clock

\* f"{latest_dictionary_entry['temp_antarctic']} C"
display_temp_antarctic ==
    /\ "display_temp_antarctic" \in pending
    /\ \E draw \in Draws :
       \E c \in {CallCalc(draw[1], draw[2])} :
         Call("display_temp_antarctic", c, c.value.df,
              [rendered |-> TRUE, tenths |-> c.value.latest.temp_antarctic,
               unit |-> "C"])

\* f"{latest_dictionary_entry['temp_arctic']} C"
display_temp_arctic ==
    /\ "display_temp_arctic" \in pending
    /\ \E draw \in Draws :
       \E c \in {CallCalc(draw[1], draw[2])} :
         Call("display_temp_arctic", c, c.value.df,
              [rendered |-> TRUE, tenths |-> c.value.latest.temp_arctic,
               unit |-> "C"])

\* Variant: the comparison is <= (a tie names Arctic).
CompareLeq(entry) ==
    IF entry.temp_arctic <= entry.temp_antarctic
    THEN [colder |-> "Arctic", first |-> entry.temp_arctic,
          second |-> entry.temp_antarctic]
    ELSE [colder |-> "Antarctic", first |-> entry.temp_antarctic,
          second |-> entry.temp_arctic]

\* The if/else of compare_temperatures: the region named as colder and the
\* two temperatures in the order the text shows them.
Compare(entry) ==
    IF entry.temp_arctic < entry.temp_antarctic
    THEN [colder |-> "Arctic", first |-> entry.temp_arctic,
          second |-> entry.temp_antarctic]
    ELSE [colder |-> "Antarctic", first |-> entry.temp_antarctic,
          second |-> entry.temp_arctic]

compare_temperatures ==
    /\ "compare_temperatures" \in pending
    /\ \E draw \in Draws :
       \E c \in {CallCalc(draw[1], draw[2])} :
       \E t \in {Compare(c.value.latest)} :
         Call("compare_temperatures", c, c.value.df,
              [rendered |-> TRUE, colder |-> t.colder, first |-> t.first,
               second |-> t.second])

\* render.DataGrid(df, width="100%"): the table as it is when rendered.
display_df ==
    /\ "display_df" \in pending
    /\ \E draw \in Draws :
       \E c \in {CallCalc(draw[1], draw[2])} :
         Call("display_df", c, c.value.df,
              [rendered |-> TRUE, grid |-> c.value.df])

\* not df.empty
NotEmpty(df) == Len(df.rows) > 0

\* stats.linregress(range(n), y): least squares over x = 0..n-1.  slope is
\* ssxym / ssxm and intercept is ymean - slope * xmean, kept as exact
\* fractions; 0/0 (a single point: ssxm = 0) is NaN, as in float division.
Linregress(y) ==
    LET n == Len(y)
        xy == [i \in 1..n |-> (i - 1) * y[i]]
        xs == [i \in 1..n |-> i - 1]
        xx == [i \in 1..n |-> (i - 1) * (i - 1)]
        Sx == SumTo(xs, n)
        Sy == SumTo(y, n)
        ssxm == n * SumTo(xx, n) - Sx * Sx
        ssxym == n * SumTo(xy, n) - Sx * Sy
    IN  [slope |-> [nan |-> ssxm = 0, num |-> ssxym, den |-> ssxm],
         intercept |-> [nan |-> ssxm = 0, num |-> Sy * ssxm - ssxym * Sx,
                        den |-> n * ssxm]]

\* slope * x + intercept
BestFit(fit, x) ==
    LET s == fit.slope
        c == fit.intercept
    IN  [nan |-> s.nan \/ c.nan,
         num |-> s.num * x * (c.den \div (IF s.den = 0 THEN 1 ELSE s.den)) + c.num,
         den |-> c.den]

\* The body of display_plot under `if not df.empty`: the DataFrame object
\* after df["timestamp"] = pd.to_datetime(..) and df['best_fit_line'] = ..
PlotMutate(df) ==
    LET n == Len(df.rows)
        fit == Linregress([i \in 1..n |-> df.rows[i].temp_antarctic])
    IN  [columns |-> IF \E k \in 1..Len(df.columns) : df.columns[k] = "best_fit_line"
                     THEN df.columns
                     ELSE Append(df.columns, "best_fit_line"),
         rows |-> [i \in 1..n |->
                     [temp_antarctic |-> df.rows[i].temp_antarctic,
                      temp_arctic |-> df.rows[i].temp_arctic,
                      timestamp |-> ToDatetime(df.rows[i].timestamp),
                      best_fit_line |-> BestFit(fit, i - 1)]]]

\* What display_plot returns: the figure when `fig` was assigned, and the
\* UnboundLocalError of `return fig` when it was not.
PlotResult(df) ==
    IF NotEmpty(df)
    THEN LET n == Len(df.rows)
             fit == Linregress([i \in 1..n |-> df.rows[i].temp_antarctic])
         IN  [rendered |-> TRUE, fig |-> "Figure", points |-> n,
              slope |-> fit.slope, intercept |-> fit.intercept]
    ELSE [rendered |-> TRUE, fig |-> "UnboundLocalError", points |-> 0,
          slope |-> [nan |-> TRUE, num |-> 0, den |-> 0],
          intercept |-> [nan |-> TRUE, num |-> 0, den |-> 0]]

display_plot ==
    /\ "display_plot" \in pending
    /\ \E draw \in Draws :
       \E c \in {CallCalc(draw[1], draw[2])} :
       \E df2 \in {IF NotEmpty(c.value.df) THEN PlotMutate(c.value.df) ELSE c.value.df} :
       \E fig \in {PlotResult(c.value.df)} :
         Call("display_plot", c, df2, fig)

\* The invalidate_later timer fires (between flushes: the runtime holds its
\* lock while the invalidated bindings re-execute): the calc's cached value
\* is dropped and every binding that read it is invalidated.  The timer is
\* explored for the first `ticks` recomputations.
TimerFireWithin(ticks) ==
    /\ timer
    /\ pending = {}
    /\ Len(appended) < ticks
    /\ timer' = FALSE
    /\ cache' = <<>>
    /\ pending' = Bindings
    /\ clock' = clock + UPDATE_INTERVAL_SECS
    /\ UNCHANGED <<deque, output, appended, returned, lastRead>>

TimerFire == TimerFireWithin(MaxTicks)

\* The runtime's flush re-executes one invalidated binding.
Flush ==
    \/ display_temp_antarctic
    \/ display_temp_arctic
    \/ compare_temperatures
    \/ display_df
    \/ display_plot

Next ==
    \/ Flush
    \/ TimerFire

Spec == Init /\ [][Next]_vars

\* The same program over a shorter horizon, for the liveness check.
LiveTimerFire == TimerFireWithin(MaxLiveTicks)

LiveNext ==
    \/ Flush
    \/ LiveTimerFire

\* A scheduled timer fires, and the flush re-executes invalidated bindings.
FairSpec ==
    /\ Init
    /\ [][LiveNext]_vars
    /\ WF_vars(LiveTimerFire)
    /\ WF_vars(Flush)

\* ------------------------------------------------------------------ claims

ThreeColumns == <<"temp_antarctic", "temp_arctic", "timestamp">>

Min(a, b) == IF a < b THEN a ELSE b

Last(s) == s[Len(s)]

\* The step is a run of the calc's body (a recomputation).
Recomputes == Len(returned') = Len(returned) + 1

\* C1: after n recomputations the deque holds min(n, DEQUE_SIZE) entries,
\* and they are the last min(n, DEQUE_SIZE) entries appended, in append
\* order.
C1_FifoContents ==
    /\ Len(appended) = Len(returned)
    /\ Len(deque) = Min(Len(appended), DEQUE_SIZE)
    /\ \A i \in 1..Len(deque) :
          deque[i] = appended[Len(appended) - Len(deque) + i]

\* C1 witness: more entries were appended than fit, and the oldest is gone.
C1_Witness ==
    /\ Len(appended) = DEQUE_SIZE + 1
    /\ Len(deque) = DEQUE_SIZE
    /\ deque[1] = appended[2]

\* C2: between two timer invalidations the body runs at most once: the number
\* of recomputations never exceeds the number of intervals started, and a
\* call that finds a cached value appends nothing, generates nothing and
\* hands out the cached reading and timestamp.
C2_Memoized ==
    /\ [](Len(returned) <= clock \div UPDATE_INTERVAL_SECS + 1)
    /\ [][(cache # <<>> /\ cache' # <<>>) =>
            /\ ~Recomputes
            /\ appended' = appended
            /\ deque' = deque
            /\ ~lastRead'.ran
            /\ lastRead'.latest = cache[1].latest
            /\ lastRead'.deque_snapshot = deque
            /\ cache'[1].latest = cache[1].latest
            /\ cache'[1].deque_snapshot = cache[1].deque_snapshot]_vars

\* C2 witness: in the second interval all five bindings have rendered and
\* the deque holds two entries.
C2_Witness ==
    /\ pending = {}
    /\ clock = UPDATE_INTERVAL_SECS
    /\ Len(appended) = 2
    /\ \A b \in Bindings : output[b].rendered

\* C3 (as claimed): the deque contents seen through the tuple returned by
\* any earlier recomputation are still the contents it had when returned.
C3_SnapshotNeverMutated ==
    \A k \in 1..Len(returned) :
        Deref(returned[k].deque_snapshot) = returned[k].atReturn

\* C4 (as claimed): every binding's call hands it a table whose columns are
\* exactly temp_antarctic, temp_arctic, timestamp and whose rows are the
\* deque's entries in order, whatever rendered before it.
C4_TableAsBuilt ==
    lastRead.called =>
        /\ lastRead.df.columns = ThreeColumns
        /\ Len(lastRead.df.rows) = Len(lastRead.deque_snapshot)
        /\ \A i \in 1..Len(lastRead.df.rows) :
              lastRead.df.rows[i] = lastRead.deque_snapshot[i]

\* C5: when a recomputation returns, the new reading is the tail of the
\* deque, the last row of the table and the tuple's latest entry, and all
\* three components are populated.
C5_LatestIsTail ==
    lastRead.ran =>
        /\ Len(deque) >= 1
        /\ Len(lastRead.deque_snapshot) >= 1
        /\ Len(lastRead.df.rows) >= 1
        /\ lastRead.df.columns = ThreeColumns
        /\ lastRead.latest = Last(appended)
        /\ lastRead.latest = Last(deque)
        /\ lastRead.latest = Last(lastRead.deque_snapshot)
        /\ Last(lastRead.df.rows) = lastRead.latest

\* C5 witness: the first recomputation has just returned (deque length 1).
C5_Witness ==
    /\ lastRead.ran
    /\ Len(deque) = 1
    /\ Len(appended) = 1

\* C6: a recomputation appends exactly one reading: below capacity the
\* length grows by one and the old entries stay in place; at capacity the
\* length stays, the oldest entry goes and the others move up in order.
C6_OneAppendPerRecompute ==
    [][(cache = <<>> /\ cache' # <<>>) =>
         /\ Recomputes
         /\ Len(appended') = Len(appended) + 1
         /\ Last(deque') = Last(appended')
         /\ IF Len(deque) < DEQUE_SIZE
            THEN /\ Len(deque') = Len(deque) + 1
                 /\ \A i \in 1..Len(deque) : deque'[i] = deque[i]
            ELSE /\ Len(deque') = DEQUE_SIZE
                 /\ \A i \in 1..(DEQUE_SIZE - 1) : deque'[i] = deque[i + 1]]_vars

\* C6 witness: a recomputation on a full deque has happened.
C6_Witness ==
    /\ Len(returned) > DEQUE_SIZE
    /\ Len(deque) = DEQUE_SIZE
    /\ cache # <<>>
    /\ Last(deque).timestamp.secs = DEQUE_SIZE * UPDATE_INTERVAL_SECS

\* C7: the cadence sustains itself: once a binding has triggered the first
\* recomputation, recomputations keep happening, up to the last one the
\* liveness specification explores.
C7_SelfSustaining ==
    (Len(returned) = 1) ~> (Len(returned) = MaxLiveTicks)

\* C7 witness: a recomputation that followed a timer invalidation, with the
\* next timer scheduled.
C7_Witness ==
    /\ Len(returned) = 3
    /\ timer
    /\ clock = 2 * UPDATE_INTERVAL_SECS

\* C8 (as claimed): the first recomputation yields a one-row table, and the
\* chart's regression over that single point gives a defined line.
C8_SinglePointDefined ==
    /\ (Len(returned) = 1 /\ cache # <<>>) => Len(cache[1].df.rows) = 1
    /\ (output["display_plot"].rendered /\ output["display_plot"].points = 1) =>
          /\ output["display_plot"].fig = "Figure"
          /\ ~output["display_plot"].slope.nan
          /\ ~output["display_plot"].intercept.nan

\* C9: compare_temperatures names Arctic exactly when temp_arctic <
\* temp_antarctic and Antarctic otherwise (ties included), the region named
\* is never the warmer one, and on a cached value it changes neither the
\* deque nor the cached tuple.
C9_Compare ==
    [][("compare_temperatures" \in pending /\ "compare_temperatures" \notin pending') =>
         LET e == cache'[1].latest
             o == output'["compare_temperatures"]
         IN  /\ o.rendered
             /\ (o.colder = "Arctic") <=> (e.temp_arctic < e.temp_antarctic)
             /\ (o.colder = "Antarctic") <=> (e.temp_arctic >= e.temp_antarctic)
             /\ o.first <= o.second
             /\ o.colder = "Arctic" =>
                  (o.first = e.temp_arctic /\ o.second = e.temp_antarctic)
             /\ o.colder = "Antarctic" =>
                  (o.first = e.temp_antarctic /\ o.second = e.temp_arctic)
             /\ cache # <<>> => (deque' = deque /\ cache' = cache)]_vars

\* C9 witness: the comparison rendered a tie, naming Antarctic.
C9_Witness ==
    /\ output["compare_temperatures"].rendered
    /\ output["compare_temperatures"].colder = "Antarctic"
    /\ output["compare_temperatures"].first = output["compare_temperatures"].second

\* C10: whenever display_plot has run, the table it received was non-empty,
\* so `fig` was assigned; and no cached table is ever empty.
C10_FigAssigned ==
    /\ cache # <<>> => NotEmpty(cache[1].df)
    /\ lastRead.called => NotEmpty(lastRead.df)
    /\ output["display_plot"].rendered => output["display_plot"].fig = "Figure"

\* C10 witness: display_plot rendered on the first tick, from one row.
C10_Witness ==
    /\ output["display_plot"].rendered
    /\ output["display_plot"].points = 1
    /\ Len(appended) = 1

====
